---- MODULE Spec2Model ----
(***************************************************************************)
(* Model of src/quizapp.py: fetch_questions (request, collaborator call,   *)
(* JSON parsing, fallback) and main (one script run per user interaction   *)
(* over the session state questions / selected_options / submitted).       *)
(***************************************************************************)
EXTENDS Integers, Sequences, FiniteSets, TLC

(***************************************************************************)
(* Bounds of the explored inputs.                                          *)
(***************************************************************************)
\* longest mcqs list the collaborator returns in a schema-shaped response
MaxLen == 2

(***************************************************************************)
(* Python values.  Every value is a record of one shape so that values of  *)
(* different Python types can be compared: t is the type, s the text of a  *)
(* str, n the number of a num, xs the elements of a list or the entries of *)
(* a dict.  A dict keeps insertion order: its entries are Pair(key, value) *)
(* with distinct string keys.                                              *)
(***************************************************************************)
Val(t, s, n, xs) == [t |-> t, s |-> s, n |-> n, xs |-> xs]
None == Val("None", "", 0, <<>>)
Str(s) == Val("str", s, 0, <<>>)
Num(n) == Val("num", "", n, <<>>)
\* True and False
Bool(b) == Val("bool", "", IF b THEN 1 ELSE 0, <<>>)
\* the floats json.loads reads from the words NaN, Infinity, -Infinity
Float(word) == Val("float", word, 0, <<>>)
List(xs) == Val("list", "", 0, xs)
Dict(kvs) == Val("dict", "", 0, kvs)
\* one entry of a dict
Pair(key, value) == Val("pair", key, 0, <<value>>)

\* outcome of evaluating an expression: a value, or an exception raised
Ok(x) == [exc |-> "", val |-> x]
Raise(e) == [exc |-> e, val |-> None]

\* positions of `key` in the pair sequence of a dict (at most one)
DictPos(kvs, key) == {i \in 1..Len(kvs) : kvs[i].s = key}

DictHas(kvs, key) == DictPos(kvs, key) # {}

DictGet(kvs, key) == kvs[CHOOSE i \in DictPos(kvs, key) : TRUE].xs[1]

\* d[key] = value: a new key is appended, an existing key keeps its position
DictSet(kvs, key, value) ==
    IF DictHas(kvs, key)
    THEN [i \in 1..Len(kvs) |-> IF kvs[i].s = key THEN Pair(key, value) ELSE kvs[i]]
    ELSE Append(kvs, Pair(key, value))

\* `a in b` for two strs: a is a run of consecutive characters of b (a
\* string is the sequence of its characters)
IsSubstring(a, b) ==
    \E i \in 0..(Len(b) - Len(a)) : SubSeq(b, i + 1, i + Len(a)) = a

\* `needle in x` for a str needle (line 121): a key test on a dict, an
\* element test on a list, a substring test on a str
Contains(needle, x) ==
    CASE x.t = "dict" -> Ok(DictHas(x.xs, needle))
      [] x.t = "list" -> Ok(\E i \in 1..Len(x.xs) : x.xs[i] = Str(needle))
      [] x.t = "str" -> Ok(IsSubstring(needle, x.s))
      [] OTHER -> Raise("TypeError")

\* `x[key]` for a str key (lines 122, 165, 166, 193)
GetItem(x, key) ==
    CASE x.t = "dict" -> IF DictHas(x.xs, key) THEN Ok(DictGet(x.xs, key)) ELSE Raise("KeyError")
      [] OTHER -> Raise("TypeError")

\* `d[k]` for a dict d and an arbitrary value k (line 198)
GetItemByValue(kvs, k) ==
    CASE k.t = "str" -> IF DictHas(kvs, k.s) THEN Ok(DictGet(kvs, k.s)) ELSE Raise("KeyError")
      [] k.t \in {"list", "dict"} -> Raise("TypeError")
      [] OTHER -> Raise("KeyError")

(***************************************************************************)
(* The collaborator's reply text, as a token sequence, and json.loads.     *)
(***************************************************************************)
Tok(k) == [k |-> k, s |-> "", n |-> 0]
TStr(s) == [k |-> "str", s |-> s, n |-> 0]
TNum(n) == [k |-> "num", s |-> "", n |-> n]

\* the decoder stops with exception e / has read value x up to token p
PRaise(e) == [ok |-> FALSE, val |-> None, pos |-> 0, exc |-> e]
PFail == PRaise("JSONDecodeError")
PDone(x, p) == [ok |-> TRUE, val |-> x, pos |-> p, exc |-> ""]

RECURSIVE ParseValue(_, _)
RECURSIVE ParseElements(_, _, _)
RECURSIVE ParseMembers(_, _, _)

\* after element r of an array: "]" ends it, "," continues it
AfterElement(toks, r, acc) ==
    IF ~r.ok THEN r
    ELSE IF r.pos > Len(toks) THEN PFail
    ELSE IF toks[r.pos].k = "]" THEN PDone(List(Append(acc, r.val)), r.pos + 1)
    ELSE IF toks[r.pos].k = "," THEN ParseElements(toks, r.pos + 1, Append(acc, r.val))
    ELSE PFail

\* after the value r of member `key` of an object: "}" ends it, "," continues it
AfterMember(toks, key, r, acc) ==
    IF ~r.ok THEN r
    ELSE IF r.pos > Len(toks) THEN PFail
    ELSE IF toks[r.pos].k = "}" THEN PDone(Dict(DictSet(acc, key, r.val)), r.pos + 1)
    ELSE IF toks[r.pos].k = "," THEN ParseMembers(toks, r.pos + 1, DictSet(acc, key, r.val))
    ELSE PFail

\* one JSON value starting at token p; pos is the first token after it.
\* Two tokens stand for texts too long to spell out, on which the decoder
\* raises something else than JSONDecodeError: "nested" for a value whose
\* arrays or objects are nested deeper than the interpreter's recursion
\* limit (about 1000 levels), "digits" for an integer literal of more than
\* 4300 digits.
ParseValue(toks, p) ==
    IF p > Len(toks) THEN PFail
    ELSE CASE toks[p].k = "null" -> PDone(None, p + 1)
           [] toks[p].k = "true" -> PDone(Bool(TRUE), p + 1)
           [] toks[p].k = "false" -> PDone(Bool(FALSE), p + 1)
           [] toks[p].k \in {"NaN", "Infinity", "-Infinity"} -> PDone(Float(toks[p].k), p + 1)
           [] toks[p].k = "num" -> PDone(Num(toks[p].n), p + 1)
           [] toks[p].k = "str" -> PDone(Str(toks[p].s), p + 1)
           [] toks[p].k = "nested" -> PRaise("RecursionError")
           [] toks[p].k = "digits" -> PRaise("ValueError")
           [] toks[p].k = "[" ->
                IF p + 1 <= Len(toks) /\ toks[p + 1].k = "]"
                THEN PDone(List(<<>>), p + 2)
                ELSE ParseElements(toks, p + 1, <<>>)
           [] toks[p].k = "{" ->
                IF p + 1 <= Len(toks) /\ toks[p + 1].k = "}"
                THEN PDone(Dict(<<>>), p + 2)
                ELSE ParseMembers(toks, p + 1, <<>>)
           [] OTHER -> PFail

\* the elements of an array after "[" or ","
ParseElements(toks, p, acc) == AfterElement(toks, ParseValue(toks, p), acc)

\* the members of an object after "{" or ","
ParseMembers(toks, p, acc) ==
    IF p + 1 > Len(toks) THEN PFail
    ELSE IF toks[p].k # "str" \/ toks[p + 1].k # ":" THEN PFail
    ELSE AfterMember(toks, toks[p].s, ParseValue(toks, p + 2), acc)

\* the text is JSON when one value takes all of it
WholeText(toks, r) ==
    IF ~r.ok THEN Raise(r.exc)
    ELSE IF r.pos = Len(toks) + 1 THEN Ok(r.val)
    ELSE Raise("JSONDecodeError")

\* json.loads(response_content) (line 118); content is a reply or None
json_loads(content) ==
    IF content.kind = "none" THEN Raise("TypeError")
    ELSE WholeText(content.toks, ParseValue(content.toks, 1))

RECURSIVE Dumps(_)
RECURSIVE DumpsElements(_, _)
RECURSIVE DumpsMembers(_, _)

\* the JSON text of a value, as the collaborator is asked to write it
Dumps(x) ==
    CASE x.t = "None" -> <<Tok("null")>>
      [] x.t = "bool" -> <<Tok(IF x.n = 1 THEN "true" ELSE "false")>>
      [] x.t = "float" -> <<Tok(x.s)>>
      [] x.t = "num" -> <<TNum(x.n)>>
      [] x.t = "str" -> <<TStr(x.s)>>
      [] x.t = "list" -> <<Tok("[")>> \o DumpsElements(x.xs, 1) \o <<Tok("]")>>
      [] x.t = "dict" -> <<Tok("{")>> \o DumpsMembers(x.xs, 1) \o <<Tok("}")>>

DumpsElements(xs, i) ==
    IF i > Len(xs) THEN <<>>
    ELSE Dumps(xs[i]) \o (IF i < Len(xs) THEN <<Tok(",")>> ELSE <<>>)
         \o DumpsElements(xs, i + 1)

DumpsMembers(kvs, i) ==
    IF i > Len(kvs) THEN <<>>
    ELSE <<TStr(kvs[i].s), Tok(":")>> \o Dumps(kvs[i].xs[1])
         \o (IF i < Len(kvs) THEN <<Tok(",")>> ELSE <<>>)
         \o DumpsMembers(kvs, i + 1)

(***************************************************************************)
(* fetch_questions.                                                        *)
(***************************************************************************)
\* a fallback question whose option d is missing
SampleWithoutD(text, correct) ==
    Dict(<<Pair("mcq", Str(text)),
           Pair("options", Dict(<<Pair("a", Str("Option A")), Pair("b", Str("Option B")),
                                  Pair("c", Str("Option C"))>>)),
           Pair("correct", Str(correct))>>)

\* one fallback question (lines 18-27, 28-37, 38-47)
SampleQuestion(text, correct) ==
    Dict(<<Pair("mcq", Str(text)),
           Pair("options", Dict(<<Pair("a", Str("Option A")), Pair("b", Str("Option B")),
                                  Pair("c", Str("Option C")), Pair("d", Str("Option D"))>>)),
           Pair("correct", Str(correct))>>)

DEFAULT_QUESTIONS ==
    Dict(<<Pair("mcqs", List(<<SampleQuestion("Sample Question 1", "a"),
                               SampleQuestion("Sample Question 2", "b"),
                               SampleQuestion("Sample Question 3", "c")>>))>>)

\* DEFAULT_QUESTIONS["mcqs"] (lines 125, 130, 134), as the list's elements
DefaultMcqs == DictGet(DEFAULT_QUESTIONS.xs, "mcqs").xs

\* a text is a sequence of characters; " " stands for any whitespace
Chars == {" ", "x"}

\* no stripping: only the empty text is empty
StripNothing(text) == text

\* str.strip() (line 51)
Strip(text) ==
    LET inked == {i \in 1..Len(text) : text[i] # " "} IN
    IF inked = {} THEN <<>>
    ELSE SubSeq(text, CHOOSE i \in inked : \A j \in inked : i <= j,
                      CHOOSE i \in inked : \A j \in inked : i >= j)

\* str.lower() on the select box's labels (line 153)
Lower(level) ==
    CASE level = "Easy" -> "easy"
      [] level = "Medium" -> "medium"
      [] level = "Hard" -> "hard"

\* a prompt that embeds the text without its surrounding whitespace
FormatStripped(text_content, quiz_level) ==
    [sent |-> TRUE, text_content |-> Strip(text_content), quiz_level |-> quiz_level]

\* PROMPT_TEMPLATE.format(...) sent as the one user message (lines 88-108):
\* the fixed instructions carry no state, the two fields are embedded verbatim
FormatPrompt(text_content, quiz_level) ==
    [sent |-> TRUE, text_content |-> text_content, quiz_level |-> quiz_level]

\* no request was made
NoRequest == [sent |-> FALSE, text_content |-> <<>>, quiz_level |-> ""]

\* the direct base classes of an exception class: the built-in exceptions,
\* json's, asyncio's and concurrent.futures' (qualified, both are called
\* CancelledError), the client library's and Streamlit's script-control
\* exceptions.  A class that is not listed is outside the model.
BasesOf(cls) ==
    CASE cls = "BaseException" ->
             {}
      [] cls \in {"APITimeoutError"} ->
             {"APIConnectionError"}
      [] cls \in {"APIConnectionError", "APIStatusError"} ->
             {"APIError"}
      [] cls \in {"RateLimitError"} ->
             {"APIStatusError"}
      [] cls \in {"FloatingPointError", "OverflowError", "ZeroDivisionError"} ->
             {"ArithmeticError"}
      [] cls \in {"BaseExceptionGroup", "Exception", "GeneratorExit",
                  "KeyboardInterrupt", "ScriptControlException", "SystemExit",
                  "asyncio.CancelledError"} ->
             {"BaseException"}
      [] cls \in {"BrokenPipeError", "ConnectionAbortedError",
                  "ConnectionRefusedError", "ConnectionResetError"} ->
             {"ConnectionError"}
      [] cls \in {"ArithmeticError", "AssertionError", "AttributeError",
                  "BufferError", "EOFError", "GroqError", "ImportError",
                  "LookupError", "MemoryError", "NameError", "OSError",
                  "ReferenceError", "RuntimeError", "StopAsyncIteration",
                  "StopIteration", "SyntaxError", "SystemError", "TypeError",
                  "ValueError", "Warning", "concurrent.futures.Error"} ->
             {"Exception"}
      [] cls \in {"APIError"} ->
             {"GroqError"}
      [] cls \in {"ModuleNotFoundError"} ->
             {"ImportError"}
      [] cls \in {"TabError"} ->
             {"IndentationError"}
      [] cls \in {"IndexError", "KeyError"} ->
             {"LookupError"}
      [] cls \in {"UnboundLocalError"} ->
             {"NameError"}
      [] cls \in {"BlockingIOError", "ChildProcessError", "ConnectionError",
                  "FileExistsError", "FileNotFoundError", "InterruptedError",
                  "IsADirectoryError", "NotADirectoryError", "PermissionError",
                  "ProcessLookupError", "TimeoutError"} ->
             {"OSError"}
      [] cls \in {"NotImplementedError", "RecursionError"} ->
             {"RuntimeError"}
      [] cls \in {"RerunException", "StopException"} ->
             {"ScriptControlException"}
      [] cls \in {"IndentationError"} ->
             {"SyntaxError"}
      [] cls \in {"UnicodeDecodeError", "UnicodeEncodeError",
                  "UnicodeTranslateError"} ->
             {"UnicodeError"}
      [] cls \in {"JSONDecodeError", "UnicodeError"} ->
             {"ValueError"}
      [] cls \in {"BytesWarning", "DeprecationWarning", "EncodingWarning",
                  "FutureWarning", "ImportWarning", "PendingDeprecationWarning",
                  "ResourceWarning", "RuntimeWarning", "SyntaxWarning",
                  "UnicodeWarning", "UserWarning"} ->
             {"Warning"}
      [] cls \in {"concurrent.futures.CancelledError"} ->
             {"concurrent.futures.Error"}
      [] cls \in {"ExceptionGroup"} ->
             {"BaseExceptionGroup", "Exception"}

RECURSIVE IsSubclass(_, _)
\* issubclass(cls, base): the test an except clause makes on the class of
\* the exception raised
IsSubclass(cls, base) ==
    cls = base \/ \E b \in BasesOf(cls) : IsSubclass(b, base)

\* `except json.JSONDecodeError` (line 127)
IsJSONDecodeError(exc) == IsSubclass(exc, "JSONDecodeError")

\* a handler that names the client's error only
IsAPIErrorOnly(exc) == exc = "APIError"

\* `except Exception` (line 132)
IsException(exc) == IsSubclass(exc, "Exception")

\* what a return or an escaping exception of a block carries
Returned(xs, notice) == [exc |-> "", val |-> xs, error |-> notice]
Raised(e) == [exc |-> e, val |-> <<>>, error |-> ""]

\* lines 121-125: the structure check on the parsed reply
ValidateStructure(response_data) ==
    LET has == Contains("mcqs", response_data) IN
    IF has.exc # "" THEN Raised(has.exc)
    ELSE IF ~has.val THEN Returned(DefaultMcqs, "Invalid response structure from API")
    ELSE LET mcqs == GetItem(response_data, "mcqs") IN
         IF mcqs.exc # "" THEN Raised(mcqs.exc)
         ELSE IF mcqs.val.t = "list" THEN Returned(mcqs.val.xs, "")
         ELSE Returned(DefaultMcqs, "Invalid response structure from API")

\* lines 118-125: the body of the inner try, given what json.loads gave
ValidateParsed(parsed) ==
    IF parsed.exc # "" THEN Raised(parsed.exc) ELSE ValidateStructure(parsed.val)

\* lines 127-130: the inner handler, given how the inner try ended
CatchJSONDecodeError(body) ==
    IF body.exc # "" /\ IsJSONDecodeError(body.exc)
    THEN Returned(DefaultMcqs,
                  "Failed to parse API response as JSON. Using default questions instead.")
    ELSE body

\* lines 116-130: the inner try around json.loads and the structure check
ParseReply(response_content) ==
    CatchJSONDecodeError(ValidateParsed(json_loads(response_content)))

\* lines 132-134: the outer handler, given how the outer try ended
CatchException(body) ==
    IF body.exc # "" /\ IsException(body.exc)
    THEN Returned(DefaultMcqs, "Error calling API")
    ELSE body

\* lines 93-134: the outer try around the collaborator call and the parsing
CallAndParse(reply) ==
    CatchException(CASE reply.kind = "raise" -> Raised(reply.exc)
                     \* the script runner stops the run: its control exception
                     \* is raised by the first st.* call after the call came
                     \* back, at the latest where the spinner of line 95 ends
                     [] reply.kind = "stopped" -> Raised(reply.exc)
                     \* completion.choices[0] on an empty list (line 111)
                     [] reply.kind = "nochoices" -> Raised("IndexError")
                     [] OTHER -> ParseReply(reply))

\* lines 51-53: the text is rejected before a request is built
Rejected(text_content) == Strip(text_content) = <<>>

\* what fetch_questions did when it called the collaborator
Fetched(r, formatted_prompt) ==
    [exc |-> r.exc, val |-> r.val, error |-> r.error, warning |-> FALSE,
     request |-> formatted_prompt]

\* fetch_questions(text_content, quiz_level), given what the collaborator
\* would answer: the returned list (or escaping exception) and what was shown
fetch_questions(text_content, quiz_level, reply) ==
    IF Rejected(text_content)
    THEN [exc |-> "", val |-> <<>>, error |-> "", warning |-> TRUE,
          request |-> NoRequest]
    ELSE Fetched(CallAndParse(reply), FormatPrompt(text_content, quiz_level))

(***************************************************************************)
(* The inputs explored.                                                    *)
(***************************************************************************)
\* an element of a reply's mcqs list
Item(options, correct) ==
    Dict(<<Pair("mcq", Str("Question")), Pair("options", options), Pair("correct", correct)>>)

FourOptions ==
    Dict(<<Pair("a", Str("Option A")), Pair("b", Str("Option B")),
           Pair("c", Str("Option C")), Pair("d", Str("Option D"))>>)

ThreeOptions ==
    Dict(<<Pair("a", Str("Option A")), Pair("b", Str("Option B")), Pair("c", Str("Option C"))>>)

\* as the prompt asks (lines 62-76)
GoodItem == Item(FourOptions, Str("b"))
\* option d is missing
MissingOption == Item(ThreeOptions, Str("a"))
\* `correct` names no option
WrongCorrect == Item(FourOptions, Str("e"))
\* `correct` is null
NullCorrect == Item(FourOptions, None)
\* no `options` key at all
NoOptions == Dict(<<Pair("mcq", Str("Question")), Pair("correct", Str("a"))>>)

Items == {GoodItem, MissingOption}

\* the mcqs lists of the schema-shaped replies: up to MaxLen of the items
\* above, and the lists of one odd item
McqsLists ==
    UNION {[1..n -> Items] : n \in 0..MaxLen}
    \cup {<<WrongCorrect>>, <<NullCorrect>>, <<NoOptions>>}

\* well-formed JSON of another shape
OtherValues ==
    { None, Num(5), Bool(TRUE), Str("mcqs"), Str("the mcqs list"),
      List(<<Str("mcqs")>>), Dict(<<>>),
      Dict(<<Pair("mcqs", List(<<>>)), Pair("ok", Bool(FALSE))>>),
      Dict(<<Pair("questions", List(<<GoodItem>>))>>),
      Dict(<<Pair("mcqs", Str("none"))>>),
      Dict(<<Pair("mcqs", Dict(<<Pair("1", GoodItem)>>))>>) }

\* the collaborator's answers: kind tells how the call of line 96 ended,
\* exc the class of the exception raised, toks the message content
ReplyText(toks) == [kind |-> "text", exc |-> "", toks |-> toks]
ReplyRaise(kind, exc) == [kind |-> kind, exc |-> exc, toks |-> <<>>]

GoodReplyText == Dumps(Dict(<<Pair("mcqs", List(<<GoodItem>>))>>))

\* text that is not JSON: a cut-off reply, prose before the JSON
BrokenTexts ==
    { SubSeq(GoodReplyText, 1, Len(GoodReplyText) - 1), <<Tok("prose")>> \o GoodReplyText }

\* texts on which json.loads raises something else than JSONDecodeError:
\* the mcqs list holds a value nested too deep, or an integer too long
LimitTexts ==
    { <<Tok("{"), TStr("mcqs"), Tok(":"), Tok("["), Tok(k), Tok("]"), Tok("}")>> :
          k \in {"nested", "digits"} }

\* the exceptions the call of line 96 is seen raising: the client's own
\* error, a cancelled future, an interrupt
CallErrors == {"APIError", "concurrent.futures.CancelledError", "KeyboardInterrupt"}

\* the exception by which the script runner ends a run at an st.* call when
\* the user has acted on the page meanwhile
ControlExceptions == {"RerunException"}

\* what the collaborator can answer: the call raises, the run is stopped
\* while it waits, the completion has no choice, the message has no content,
\* or it has a text
Replies ==
    {ReplyRaise("raise", e) : e \in CallErrors}
    \cup {ReplyRaise("stopped", e) : e \in ControlExceptions}
    \cup {ReplyRaise("nochoices", ""), ReplyRaise("none", "")}
    \cup {ReplyText(toks) : toks \in LimitTexts}
    \cup {ReplyText(Dumps(Dict(<<Pair("mcqs", List(l))>>))) : l \in McqsLists}
    \cup {ReplyText(Dumps(x)) : x \in OtherValues}
    \cup {ReplyText(toks) : toks \in BrokenTexts}

\* what the user can have put into the text area and the select box
\* (lines 140-141) when clicking Generate
Forms ==
    { [text |-> <<>>, level |-> "Easy"], [text |-> <<" ", " ">>, level |-> "Medium"],
      [text |-> <<" ", "x", " ">>, level |-> "Hard"] }

(***************************************************************************)
(* main: one run of the script per user interaction.  The session state    *)
(* and the widgets' values persist between runs; locals do not.            *)
(***************************************************************************)
VARIABLES
    text_content,      \* text passed to fetch_questions by this run (line 155)
    quiz_level,        \* level passed to fetch_questions by this run (line 156)
    questions,         \* st.session_state.questions: elements of the list
    selected_options,  \* st.session_state.selected_options
    submitted,         \* st.session_state.submitted
    radio,             \* the radio widgets "question_i" drawn by the last run
    marks,             \* local `marks` when the last run ended
    score_percentage,  \* local `score_percentage` when the last run ended, in tenths
    err,               \* exception that ended the last run, and the line raising it
    event,             \* the interaction that started the last run; "call"
                       \* while a Generate run waits in the call of line 96
    request,           \* request built for the collaborator by this run
    reply,             \* what the collaborator answered in the last run
    warning,           \* st.warning shown by the last run (line 52)
    error,             \* st.error notice of fetch_questions shown by the last run
    calls,             \* times this run has entered the call of line 96
    outstanding        \* requests sent and not yet answered

vars == <<text_content, quiz_level, questions, selected_options, submitted, radio,
          marks, score_percentage, err, event, request, reply, warning, error, calls,
          outstanding>>

\* a local variable that has not been assigned
Unbound == -1

NoError == [exc |-> "", line |-> 0]
ErrorAt(e, l) == [exc |-> e, line |-> l]

\* no collaborator call in this run
NoReply == [kind |-> "nocall", exc |-> "", toks |-> <<>>]

\* a reset that keeps the old selections at the positions that remain
KeepSelections(qs) ==
    [i \in 1..Len(qs) |-> IF i <= Len(selected_options) THEN selected_options[i] ELSE None]

\* one slot per requested question, whatever came back
ResetThree(qs) == [i \in 1..Len(DefaultMcqs) |-> None]

\* [None] * len(questions) (line 158)
ResetSelections(qs) == [i \in 1..Len(qs) |-> None]

\* lines 165-166: question["mcq"], question["options"].items()
QuestionOptions(question) ==
    LET mcq == GetItem(question, "mcq")
        options == GetItem(question, "options")
    IN IF mcq.exc # "" THEN [exc |-> mcq.exc, line |-> 165, items |-> <<>>]
       ELSE IF options.exc # "" THEN [exc |-> options.exc, line |-> 166, items |-> <<>>]
       ELSE IF options.val.t # "dict" THEN [exc |-> "AttributeError", line |-> 166, items |-> <<>>]
       ELSE [exc |-> "", line |-> 0, items |-> options.val.xs]

\* what identifies the widget "question_i" besides its key: the option
\* texts shown (format_func, line 170)
OptionTexts(items) == [j \in 1..Len(items) |-> items[j].xs[1]]

\* st.radio(..., key="question_i", index=None) (lines 167-173): the widget
\* keeps its choice between runs while it is drawn with the same options,
\* and starts unselected (index 0 here) otherwise
RadioIndex(widgets, i, items) ==
    IF i <= Len(widgets) /\ widgets[i].texts = OptionTexts(items)
    THEN widgets[i].index
    ELSE 0

\* stores the option's text instead of its key
StoreOptionText(sel, i, option) == [sel EXCEPT ![i] = option.xs[1]]

\* selected_options[i] = selected_option[0] (line 175): the option's key
StoreSelection(sel, i, option) == [sel EXCEPT ![i] = Str(option.s)]

RECURSIVE RadioLoop(_, _, _, _, _)

\* lines 167-175 for question i, whose options are o.items and whose widget
\* holds index: the widget is drawn and a choice is stored
RadioStep(qs, sel, widgets, drawn, i, o, index) ==
    IF index = 0
    THEN RadioLoop(qs, sel, widgets,
                   Append(drawn, [texts |-> OptionTexts(o.items), index |-> index]), i + 1)
    ELSE IF i > Len(sel)
    THEN [sel |-> sel,
          drawn |-> Append(drawn, [texts |-> OptionTexts(o.items), index |-> index]),
          err |-> ErrorAt("IndexError", 175)]
    ELSE RadioLoop(qs, StoreSelection(sel, i, o.items[index]), widgets,
                   Append(drawn, [texts |-> OptionTexts(o.items), index |-> index]), i + 1)

\* lines 165-166 for question i: an exception there ends the loop
RadioQuestion(qs, sel, widgets, drawn, i, o) ==
    IF o.exc # "" THEN [sel |-> sel, drawn |-> drawn, err |-> ErrorAt(o.exc, o.line)]
    ELSE RadioStep(qs, sel, widgets, drawn, i, o, RadioIndex(widgets, i, o.items))

\* lines 163-175 from question i on: the selections written, the widgets
\* drawn, and the exception that stopped the loop
RadioLoop(qs, sel, widgets, drawn, i) ==
    IF i > Len(qs) THEN [sel |-> sel, drawn |-> drawn, err |-> NoError]
    ELSE RadioQuestion(qs, sel, widgets, drawn, i, QuestionOptions(qs[i]))

(***************************************************************************)
(* Floats.  A binary number is the sequence of its bits, the most          *)
(* significant first; a float is sig * 2^(-exp) with sig of 53 bits.       *)
(***************************************************************************)
RECURSIVE BitsOf(_)
RECURSIVE ValueOf(_)
RECURSIVE TimesSmall(_, _, _)
RECURSIVE DivRest(_, _, _)
RECURSIVE LeadingZeros(_, _)

\* the bits of a natural number, none for 0
BitsOf(v) == IF v = 0 THEN <<>> ELSE Append(BitsOf(v \div 2), v % 2)

\* k zero bits
Zeros(k) == [i \in 1..k |-> 0]

\* the number a short sequence of bits stands for
ValueOf(bits) ==
    IF bits = <<>> THEN 0
    ELSE 2 * ValueOf(SubSeq(bits, 1, Len(bits) - 1)) + bits[Len(bits)]

\* the last k bits of v
LowBits(v, k) == [j \in 1..k |-> (v \div 2 ^ (k - j)) % 2]

\* bits * c + carry, for bits that begin with 1 and small c and carry, 13
\* bits at a time from the right
TimesSmall(bits, c, carry) ==
    IF Len(bits) <= 13 THEN BitsOf(c * ValueOf(bits) + carry)
    ELSE TimesSmall(SubSeq(bits, 1, Len(bits) - 13), c,
                    (c * ValueOf(SubSeq(bits, Len(bits) - 12, Len(bits))) + carry) \div 2 ^ 13)
         \o LowBits(c * ValueOf(SubSeq(bits, Len(bits) - 12, Len(bits))) + carry, 13)

\* the order of two binary numbers without leading zeros: -1, 0 or 1
CompareBits(a, b) ==
    IF Len(a) # Len(b) THEN (IF Len(a) > Len(b) THEN 1 ELSE -1)
    ELSE IF a = b THEN 0
    ELSE IF a[CHOOSE i \in 1..Len(a) : a[i] # b[i] /\ \A j \in 1..(i - 1) : a[j] = b[j]] = 1
    THEN 1 ELSE -1

\* the 53 bits kept of a longer number, up telling whether one is added
RoundedUp(kept, up) == IF up THEN TimesSmall(kept, 1, 1) ELSE kept

\* round to nearest, ties to even: the first 53 bits of `bits` (54 or more,
\* the first being 1), and how many bits were dropped; sticky tells that
\* the number goes on after `bits` with some 1
RoundHalfEven(bits, sticky) ==
    [sig |-> SubSeq(RoundedUp(SubSeq(bits, 1, 53),
                              /\ bits[54] = 1
                              /\ \/ sticky
                                 \/ bits[53] = 1
                                 \/ \E i \in 55..Len(bits) : bits[i] = 1), 1, 53),
     dropped |-> Len(bits) - 53
                 + (IF /\ bits[54] = 1
                       /\ \A i \in 1..53 : bits[i] = 1
                    THEN 1 ELSE 0)]

\* what is left of r after the first k bits of r / n behind the binary
\* point, for r < n: r * 2^k modulo n
DivRest(r, n, k) ==
    IF k <= 8 THEN (r * 2 ^ k) % n ELSE DivRest((r * 2 ^ 8) % n, n, k - 8)

\* the first k bits of r / n behind the binary point, for r < n
DivBits(r, n, k) == [j \in 1..k |-> IF 2 * DivRest(r, n, j - 1) >= n THEN 1 ELSE 0]

\* the zeros of r / n between the binary point and its first 1, for 0 < r < n
LeadingZeros(r, n) == IF 2 * r >= n THEN 0 ELSE 1 + LeadingZeros(2 * r, n)

\* a float of 53 bits sig, worth sig * 2^(-exp)
Float53(r, exp) == [sig |-> r.sig, exp |-> exp - r.dropped]

\* marks / len(questions) (line 182) for 0 < m < n, z being LeadingZeros(m, n)
FloatDivide(m, n, z) ==
    Float53(RoundHalfEven(SubSeq(DivBits(m, n, z + 54), z + 1, z + 54),
                          DivRest(m, n, z + 54) > 0),
            z + 54)

\* q * 100 (line 182)
FloatTimes100(q) == Float53(RoundHalfEven(TimesSmall(q.sig, 100, 0), FALSE), q.exp)

\* the order of the float p and the fraction 100 m / n
CompareToFraction(p, m, n) ==
    CompareBits(TimesSmall(p.sig, n, 0), BitsOf(100 * m) \o Zeros(p.exp))

\* the order of the float (m / n) * 100 and the fraction 100 m / n, 0 < m < n
FloatSide(m, n) ==
    CompareToFraction(FloatTimes100(FloatDivide(m, n, LeadingZeros(m, n))), m, n)

\* the percentage as `:.1f` prints it, in tenths (lines 182, 184): the float
\* (m / n) * 100 rounded to the nearest tenth, a tie to the even one.  The
\* float is within 10^-13 of 100 m / n, and a tenth's midpoint that is not
\* 100 m / n itself is at least 1 / (20 n) away from it, so the float
\* decides only when 100 m / n is a midpoint.  The arithmetic stays within
\* 32 bits for n below 2^17.
Percentage(m, n) ==
    IF 2 * ((1000 * m) % n) # n
    THEN (1000 * m) \div n + (IF 2 * ((1000 * m) % n) > n THEN 1 ELSE 0)
    ELSE CASE FloatSide(m, n) = 1 -> (1000 * m) \div n + 1
           [] FloatSide(m, n) = -1 -> (1000 * m) \div n
           [] OTHER -> (1000 * m) \div n + (((1000 * m) \div n) % 2)

\* lines 182-184: the final score, computed from the local `marks`
FinalScore(m, qs) ==
    IF m = Unbound THEN [exc |-> "UnboundLocalError", line |-> 182, value |-> Unbound]
    ELSE [exc |-> "", line |-> 0, value |-> Percentage(m, Len(qs))]

\* counts every question but the one answered correctly
AnswerDiffers(selected_key, correct_key) == selected_key # correct_key

\* selected_key == correct_key (line 200)
AnswerMatches(selected_key, correct_key) == selected_key = correct_key

\* a click that toggles the flag
ToggleSubmitted(sub) == ~sub

\* st.session_state.submitted = True (line 179), sub being the flag before
SetSubmitted(sub) == TRUE

RECURSIVE ResultsLoop(_, _, _, _)

\* lines 192-201 for question i, given its correct key and its options
ResultsStep(qs, sel, m, i, correct_key, options) ==
    IF correct_key.exc # "" THEN [marks |-> m, err |-> ErrorAt(correct_key.exc, 193)]
    ELSE IF GetItemByValue(options, correct_key.val).exc # ""
    THEN [marks |-> m, err |-> ErrorAt(GetItemByValue(options, correct_key.val).exc, 198)]
    ELSE ResultsLoop(qs, sel, IF AnswerMatches(sel[i], correct_key.val) THEN m + 1 ELSE m,
                     i + 1)

\* lines 191-206 from question i on: marks so far, and the exception that
\* stopped the loop
ResultsLoop(qs, sel, m, i) ==
    IF i > Len(qs) THEN [marks |-> m, err |-> NoError]
    ELSE IF i > Len(sel) THEN [marks |-> m, err |-> ErrorAt("IndexError", 192)]
    ELSE ResultsStep(qs, sel, m, i, GetItem(qs[i], "correct"),
                     GetItem(qs[i], "options").val.xs)

\* fetch_questions was not called
NoFetch ==
    [exc |-> "", val |-> <<>>, error |-> "", warning |-> FALSE,
     request |-> NoRequest]

\* a Generate branch that replaces the session only when questions came back
KeepSessionIfEmpty(generate, f) ==
    [questions |-> IF generate /\ f.exc = "" /\ f.val # <<>> THEN f.val ELSE questions,
     selected_options |-> IF generate /\ f.exc = "" /\ f.val # <<>>
                          THEN ResetSelections(f.val) ELSE selected_options,
     submitted |-> IF generate /\ f.exc = "" /\ f.val # <<>> THEN FALSE ELSE submitted,
     err |-> IF generate /\ f.exc # "" THEN ErrorAt(f.exc, 154) ELSE NoError,
     fetch |-> f,
     drawn |-> <<>>,
     reached178 |-> FALSE,
     score_percentage |-> Unbound,
     marks |-> Unbound]

\* the Generate branch without line 159: submitted is left as it was
KeepSubmitted(generate, f) ==
    [questions |-> IF generate /\ f.exc = "" THEN f.val ELSE questions,
     selected_options |-> IF generate /\ f.exc = "" THEN ResetSelections(f.val)
                          ELSE selected_options,
     submitted |-> submitted,
     err |-> IF generate /\ f.exc # "" THEN ErrorAt(f.exc, 154) ELSE NoError,
     fetch |-> f,
     drawn |-> <<>>,
     reached178 |-> FALSE,
     score_percentage |-> Unbound,
     marks |-> Unbound]

\* lines 152-159: the session after the Generate branch; f is what
\* fetch_questions did.  An exception escaping it ends the run at line 154.
AfterGenerate(generate, f) ==
    [questions |-> IF generate /\ f.exc = "" THEN f.val ELSE questions,
     selected_options |-> IF generate /\ f.exc = "" THEN ResetSelections(f.val)
                          ELSE selected_options,
     submitted |-> IF generate /\ f.exc = "" THEN FALSE ELSE submitted,
     err |-> IF generate /\ f.exc # "" THEN ErrorAt(f.exc, 154) ELSE NoError,
     fetch |-> f,
     drawn |-> <<>>,
     reached178 |-> FALSE,
     score_percentage |-> Unbound,
     marks |-> Unbound]

\* the run after the radio loop ended as `loop` tells
WithRadios(s, loop) ==
    [s EXCEPT !.selected_options = loop.sel, !.drawn = loop.drawn, !.err = loop.err,
              !.reached178 = (loop.err = NoError)]

\* lines 162-175: the questions are drawn when there are any
AfterRadios(s, widgets) ==
    IF s.err = NoError /\ s.questions # <<>>
    THEN WithRadios(s, RadioLoop(s.questions, s.selected_options, widgets, <<>>, 1))
    ELSE s

\* the run after the final score was computed as `score` tells
WithScore(s, score) ==
    [s EXCEPT !.submitted = SetSubmitted(s.submitted),
              !.score_percentage = score.value,
              !.err = IF score.exc # "" THEN ErrorAt(score.exc, score.line) ELSE s.err]

\* lines 178-184: the Submit button and the final score; `marks` is a local
\* of this run, not yet assigned here
AfterSubmit(s, submit) ==
    IF s.reached178 /\ submit THEN WithScore(s, FinalScore(Unbound, s.questions)) ELSE s

\* the run after the results loop ended as `results` tells
WithMarks(s, results) == [s EXCEPT !.marks = results.marks, !.err = results.err]

\* lines 187-206: the results of a submitted session
AfterResults(s) ==
    IF s.reached178 /\ s.err = NoError /\ s.submitted
    THEN WithMarks(s, ResultsLoop(s.questions, s.selected_options, 0, 1))
    ELSE s

\* the session state, the locals and what was shown when the run ends
Outcome(s, generate, text, quiz_level_lower, answer) ==
    [questions |-> s.questions, selected_options |-> s.selected_options,
     submitted |-> s.submitted, radio |-> s.drawn, marks |-> s.marks,
     score_percentage |-> s.score_percentage, err |-> s.err,
     text_content |-> IF generate THEN text ELSE <<>>,
     quiz_level |-> IF generate THEN quiz_level_lower ELSE "",
     request |-> s.fetch.request,
     reply |-> IF s.fetch.request.sent THEN answer ELSE NoReply,
     warning |-> s.fetch.warning,
     error |-> s.fetch.error]

\* one run of main.  generate and submit tell which button was clicked,
\* widgets are the radio widgets as the browser sent them, text the value of
\* the text area (line 140), quiz_level_lower the level of line 153, answer
\* the collaborator's reply if it is asked.
Main(generate, submit, widgets, text, quiz_level_lower, answer) ==
    Outcome(AfterResults(AfterSubmit(AfterRadios(
                AfterGenerate(generate,
                              IF generate
                              THEN fetch_questions(text, quiz_level_lower, answer)
                              ELSE NoFetch),
                widgets), submit)),
            generate, text, quiz_level_lower, answer)

\* the variables after a run of main
Run(generate, submit, widgets, text, quiz_level_lower, answer) ==
    \E m \in {Main(generate, submit, widgets, text, quiz_level_lower, answer)} :
    /\ questions' = m.questions
    /\ text_content' = m.text_content
    /\ quiz_level' = m.quiz_level
    /\ selected_options' = m.selected_options
    /\ submitted' = m.submitted
    /\ radio' = m.radio
    /\ marks' = m.marks
    /\ score_percentage' = m.score_percentage
    /\ err' = m.err
    /\ request' = m.request
    /\ reply' = m.reply
    /\ warning' = m.warning
    /\ error' = m.error

(***************************************************************************)
(* The state machine.                                                      *)
(***************************************************************************)
\* the page after its first run: lines 144-149, no button clicked
Init ==
    /\ text_content = <<>>
    /\ quiz_level = ""
    /\ questions = <<>>
    /\ selected_options = <<>>
    /\ submitted = FALSE
    /\ radio = <<>>
    /\ marks = Unbound
    /\ score_percentage = Unbound
    /\ err = NoError
    /\ event = "load"
    /\ request = NoRequest
    /\ reply = NoReply
    /\ warning = FALSE
    /\ error = ""
    /\ calls = 0
    /\ outstanding = 0

\* the Submit button is on the page when the last run reached line 178
SubmitShown == questions # <<>> /\ (err = NoError \/ err.line >= 178)

\* no run is under way: a session's runs are made one after the other, and a
\* run waiting in the call of line 96 has not ended
Idle == outstanding = 0

\* a run that goes from its first line to its last without the collaborator
NoCall == calls' = 0 /\ outstanding' = outstanding

\* the user edits the text area or picks another level: a run of the script
\* with no button clicked
EditInputs ==
    /\ Idle
    /\ event' = "edit"
    /\ Run(FALSE, FALSE, radio, <<>>, "", NoReply)
    /\ NoCall

\* a Generate run that retries: after a reply that ended in a handler it
\* sends the request once more
ReceiveReplyOrRetry(answer) ==
    /\ outstanding > 0
    /\ IF CallAndParse(answer).error # "" /\ calls < 3
       THEN /\ event' = "call"
            /\ calls' = calls + 1
            /\ UNCHANGED <<text_content, quiz_level, questions, selected_options,
                           submitted, radio, marks, score_percentage, err, request,
                           reply, warning, error, outstanding>>
       ELSE /\ event' = "generate"
            /\ Run(TRUE, FALSE, radio, text_content, quiz_level, answer)
            /\ calls' = calls
            /\ outstanding' = outstanding - 1

\* the user clicks "Generate Quiz" (line 152) with text in the text area
\* and level in the select box.  A rejected text (lines 51-53) lets the run
\* go on to its end at once; any other text takes the run into the call of
\* line 96, where it waits for the collaborator with the request sent, the
\* session state as it was and the page as the last run drew it.
GenerateQuiz(text, level) ==
    /\ Idle
    /\ IF Rejected(text)
       THEN /\ event' = "generate"
            /\ Run(TRUE, FALSE, radio, text, Lower(level), NoReply)
            /\ NoCall
       ELSE /\ event' = "call"
            /\ text_content' = text
            /\ quiz_level' = Lower(level)
            /\ request' = FormatPrompt(text, Lower(level))
            /\ calls' = 1
            /\ outstanding' = outstanding + 1
            /\ UNCHANGED <<questions, selected_options, submitted, radio, marks,
                           score_percentage, err, reply, warning, error>>

\* the call of line 96 ends as `answer` tells and the waiting run goes on
\* from there to its end (lines 109-134, 154-206) without another call
ReceiveReply(answer) ==
    /\ outstanding > 0
    /\ event' = "generate"
    /\ Run(TRUE, FALSE, radio, text_content, quiz_level, answer)
    /\ calls' = calls
    /\ outstanding' = outstanding - 1

\* the user picks option k of the radio widget of question i (lines 167-175)
SelectAnswer(i, k) ==
    /\ Idle
    /\ i \in 1..Len(radio)
    /\ k \in 1..Len(radio[i].texts)
    /\ k # radio[i].index
    /\ event' = "select"
    /\ Run(FALSE, FALSE, [radio EXCEPT ![i].index = k], <<>>, "", NoReply)
    /\ NoCall

\* the user clicks "Submit Quiz" (line 178)
SubmitQuiz ==
    /\ Idle
    /\ SubmitShown
    /\ event' = "submit"
    /\ Run(FALSE, TRUE, radio, <<>>, "", NoReply)
    /\ NoCall

\* the most questions a session can hold
MaxQuestions == IF MaxLen > Len(DefaultMcqs) THEN MaxLen ELSE Len(DefaultMcqs)

\* the option keys the prompt asks for (line 80)
Keys == {"a", "b", "c", "d"}

Next ==
    \/ EditInputs
    \/ \E form \in Forms : GenerateQuiz(form.text, form.level)
    \/ \E answer \in Replies : ReceiveReply(answer)
    \/ \E i \in 1..MaxQuestions, k \in 1..Cardinality(Keys) : SelectAnswer(i, k)
    \/ SubmitQuiz

Spec == Init /\ [][Next]_vars

(***************************************************************************)
(* Properties.                                                             *)
(***************************************************************************)
\* some character of the text is not whitespace
NotBlank(text) == \E i \in 1..Len(text) : text[i] # " "

\* the count the specification asks of submit: the positions whose
\* selection is set and equals the question's correct key
ScoreOf(qs, sel) ==
    Cardinality({i \in 1..Len(qs) :
                    /\ i <= Len(sel)
                    /\ sel[i] # None
                    /\ GetItem(qs[i], "correct").exc = ""
                    /\ sel[i] = GetItem(qs[i], "correct").val})

\* the collaborator call raised or gave no choice, or its reply is not JSON,
\* or is JSON that is not an object
ReplyUnusable(r) ==
    \/ r.kind \in {"raise", "nochoices"}
    \/ /\ r.kind \in {"none", "text"}
       /\ \E parsed \in {json_loads(r)} : parsed.exc # "" \/ parsed.val.t # "dict"

\* C1 as claimed: for a text that is not whitespace-only no exception
\* escapes fetch_questions (the run does not end at the call, line 154), and
\* when the call raised or the reply is not a JSON object the questions
\* returned are exactly the three fallback questions.
C1_FailuresGiveFallback ==
    (event = "generate" /\ NotBlank(text_content)) =>
        /\ err.line # 154
        /\ ReplyUnusable(reply) => questions = DefaultMcqs

\* an exception was raised inside the try of line 93 whose class does not
\* derive from Exception
NotAnException(r) == r.kind \in {"raise", "stopped"} /\ ~IsSubclass(r.exc, "Exception")

\* C1 amended: for a text that is not whitespace-only, an exception raised
\* inside the try whose class derives from Exception never escapes, and
\* whenever the call raises such an exception, the completion has no choice
\* or no content, or the reply is not JSON or not a JSON object, the run
\* holds exactly the three fallback questions, under an error notice.  An
\* exception whose class does not derive from Exception (an interrupt, a
\* cancelled task, the script runner's control exceptions) escapes at line
\* 154 and the session state stays as it was.
C1_ExceptionsGiveFallback ==
    [][(event' = "generate" /\ NotBlank(text_content')) =>
          IF NotAnException(reply')
          THEN /\ err' = ErrorAt(reply'.exc, 154)
               /\ UNCHANGED <<questions, selected_options, submitted>>
          ELSE /\ err'.line # 154
               /\ \/ questions' = DefaultMcqs /\ error' # ""
                  \/ ~ReplyUnusable(reply')]_vars

\* C1 witness: an interrupt raised by the call escaped a Generate run, which
\* left the two questions loaded before and the answer picked for them
C1_Witness ==
    /\ event = "generate"
    /\ NotBlank(text_content)
    /\ reply.kind = "raise"
    /\ reply.exc = "KeyboardInterrupt"
    /\ err = ErrorAt("KeyboardInterrupt", 154)
    /\ Len(questions) = 2
    /\ \E i \in 1..Len(selected_options) : selected_options[i] # None

\* C2: a submit click sets submitted, and the marks counted by the results
\* block of a graded session are the number of positions whose selection is
\* set and equals the correct key; an unset selection is never counted.
C2_ScoreCountsCorrectSelections ==
    /\ event = "submit" => submitted
    /\ (submitted /\ err = NoError) =>
          /\ marks = ScoreOf(questions, selected_options)
          /\ (\A i \in 1..Len(selected_options) : selected_options[i] = None) => marks = 0

\* C2 witness: a graded three-question session with one right answer, one
\* wrong answer and one question left unset, scored 1
C2_Witness ==
    /\ submitted
    /\ err = NoError
    /\ questions = DefaultMcqs
    /\ selected_options = <<Str("a"), Str("a"), None>>
    /\ marks = 1

\* C3 as claimed: the run in which Submit is clicked on a Loaded session ends
\* without error, with the score and percentage = 100 * score / len(questions).
C3_SubmitYieldsPercentage ==
    [][(questions # <<>> /\ ~submitted /\ event' = "submit") =>
          /\ err' = NoError
          /\ marks' = ScoreOf(questions', selected_options')
          /\ score_percentage' = Percentage(marks', Len(questions'))]_vars

\* the questions fetch_questions returns for the reply of the last run
NewSet == CallAndParse(reply).val

\* C4 as claimed: when a Generate run that obtained a question set ends,
\* questions is the new set, every selection is unset and submitted is false.
C4_GenerateReplacesSession ==
    (event = "generate" /\ calls = 1) =>
        /\ questions = NewSet
        /\ \A i \in 1..Len(selected_options) : selected_options[i] = None
        /\ ~submitted

\* C5: in every reachable state selected_options is as long as questions.
C5_SelectionsMatchQuestions == Len(selected_options) = Len(questions)

\* C5 witness: a Generate run that loaded a two-question set of the model
C5_Witness ==
    /\ event = "generate"
    /\ Len(questions) = 2
    /\ Len(selected_options) = 2

\* a question as the specification requires it: exactly the options a, b, c,
\* d and a correct key among them
WellFormed(q) ==
    /\ GetItem(q, "options").exc = ""
    /\ GetItem(q, "options").val.t = "dict"
    /\ {GetItem(q, "options").val.xs[j].s : j \in 1..Len(GetItem(q, "options").val.xs)} = Keys
    /\ GetItem(q, "correct").exc = ""
    /\ \E k \in Keys : GetItem(q, "correct").val = Str(k)

\* the reply is a JSON object with a list under mcqs
HasMcqsList(r) ==
    /\ ~ReplyUnusable(r)
    /\ GetItem(json_loads(r).val, "mcqs").exc = ""
    /\ GetItem(json_loads(r).val, "mcqs").val.t = "list"

\* C6 as claimed: a reply without a list under mcqs, or with an item that is
\* not well formed, is replaced by the fallback set, so every question held
\* is well formed.
C6_MalformedItemsRejected ==
    /\ (event = "generate" /\ calls = 1 /\ reply.kind = "text" /\ ~ReplyUnusable(reply)) =>
          \/ /\ HasMcqsList(reply)
             /\ \A i \in 1..Len(NewSet) : WellFormed(NewSet[i])
          \/ questions = DefaultMcqs
    /\ \A i \in 1..Len(questions) : WellFormed(questions[i])

\* C7 as claimed: once submitted, a select-answer action leaves the
\* selections and the marks as they were.
C7_GradedSelectionsFrozen ==
    [][(submitted /\ event' = "select") =>
          /\ selected_options' = selected_options
          /\ (marks # Unbound /\ marks' # Unbound) => marks' = marks]_vars

\* C8: for a text of whitespace only (or empty) fetch_questions returns the
\* empty list, shows the warning and neither builds a request nor calls the
\* collaborator.
C8_BlankTextRejected ==
    (event = "generate" /\ ~NotBlank(text_content)) =>
        /\ questions = <<>>
        /\ warning
        /\ calls = 0
        /\ request = NoRequest

\* C8 witness: Generate was clicked on a text of two blanks
C8_Witness ==
    /\ event = "generate"
    /\ text_content = <<" ", " ">>
    /\ warning
    /\ questions = <<>>

\* C9: submitted stays true under select-answer and submit, and only a
\* Generate run makes it false again.
C9_GradedUntilGenerate ==
    [][/\ (submitted /\ event' \in {"select", "submit"}) => submitted'
       /\ (submitted /\ ~submitted') => event' = "generate"]_vars

\* C9 witness: a select-answer action ran on a graded session, which is
\* still graded
C9_Witness ==
    /\ submitted
    /\ event = "select"
    /\ \E i \in 1..Len(selected_options) : selected_options[i] # None

\* C10: a select-answer action for question i of a Loaded session sets
\* selected_options[i] to the key of the chosen option and leaves questions,
\* submitted and every other selection as they were.
C10_SelectWritesOnePosition ==
    [][\A i \in 1..MaxQuestions, k \in 1..Cardinality(Keys) :
          (questions # <<>> /\ ~submitted /\ SelectAnswer(i, k)) =>
              /\ selected_options' =
                    [selected_options EXCEPT
                        ![i] = Str(QuestionOptions(questions[i]).items[k].s)]
              /\ questions' = questions
              /\ submitted' = submitted]_vars

\* C10 witness: a Loaded three-question session in which two answers are
\* picked, the last pick made by a select-answer action
C10_Witness ==
    /\ event = "select"
    /\ ~submitted
    /\ Len(questions) = 3
    /\ selected_options = <<Str("b"), None, Str("d")>>

\* C11: in every reachable state a session that is submitted holds a
\* question set: with no questions loaded the Submit button is not drawn,
\* and a Generate run that loads no question clears submitted.
C11_SubmittedHasQuestions == submitted => questions # <<>>

\* C11 witness: a submit click on a loaded one-question set made the
\* session submitted
C11_Witness ==
    /\ event = "submit"
    /\ submitted
    /\ Len(questions) = 1

\* C12 as claimed: every question set held after a Generate run that called
\* the collaborator, whether it came from the reply or from the fallback,
\* has exactly 3 questions.
C12_ExactlyThreeQuestions ==
    (event = "generate" /\ calls = 1) => Len(questions) = 3

\* the reply fails the validation the specification asks for: it is not a
\* JSON object with a list under mcqs, or an item of the list is not well
\* formed
ValidationFails(r) ==
    \/ ~HasMcqsList(r)
    \/ \E i \in 1..Len(GetItem(json_loads(r).val, "mcqs").val.xs) :
          ~WellFormed(GetItem(json_loads(r).val, "mcqs").val.xs[i])

\* C13 as claimed: the fallback set is supplied in each of three cases: the
\* text is rejected as empty, the collaborator call raises, the reply fails
\* the validation; a Generate with whitespace-only text leaves the session
\* holding the fallback set.
C13_FallbackInThreeCases ==
    event = "generate" =>
        /\ ~NotBlank(text_content) => questions = DefaultMcqs
        /\ (NotBlank(text_content) /\ reply.kind = "raise") => questions = DefaultMcqs
        /\ (NotBlank(text_content) /\ reply.kind \in {"nochoices", "none", "text"}
              /\ ValidationFails(reply)) => questions = DefaultMcqs

\* C14 as claimed: for every text of length > 0, whitespace-only texts
\* included, a request is built that embeds the text unmodified and the
\* collaborator is called.
C14_NonEmptyTextNeverRejected ==
    (event = "generate" /\ Len(text_content) > 0) =>
        /\ request.sent
        /\ request.text_content = text_content
        /\ calls = 1

\* C14 amended: for every text with a character that is not whitespace a
\* request is built that embeds the text as typed, surrounding whitespace
\* included, and the collaborator is called; a text of length > 0 made only
\* of whitespace is rejected without a request.
C14_NotBlankTextNeverRejected ==
    event = "generate" =>
        /\ NotBlank(text_content) =>
              /\ request.sent
              /\ request.text_content = text_content
              /\ calls = 1
        /\ (Len(text_content) > 0 /\ ~NotBlank(text_content)) =>
              /\ ~request.sent
              /\ calls = 0

\* C14 witness: a text with whitespace around a letter was sent as typed
C14_Witness ==
    /\ event = "generate"
    /\ text_content = <<" ", "x", " ">>
    /\ request.sent
    /\ request.text_content = <<" ", "x", " ">>
    /\ calls = 1

C16_FallbackFixedAndWellFormed ==
    (event = "generate" /\ error # "") =>
        /\ questions = DefaultMcqs
        /\ Len(questions) = 3
        /\ \A i \in 1..Len(questions) : WellFormed(questions[i])

\* C16 witness: a reply that is not JSON was answered by the fallback set
\* through the inner handler
C16_Witness ==
    /\ event = "generate"
    /\ error = "Failed to parse API response as JSON. Using default questions instead."
    /\ Len(questions) = 3
    /\ \A i \in 1..Len(questions) : WellFormed(questions[i])

\* C17: a Generate run with an empty or whitespace-only text, from whatever
\* state it starts (no session, a loaded session with answers picked, a
\* graded session), ends with no questions, no selections and submitted
\* false.
C17_BlankGenerateEmptiesSession ==
    [][(event' = "generate" /\ ~NotBlank(text_content')) =>
          /\ questions' = <<>>
          /\ selected_options' = <<>>
          /\ ~submitted']_vars

\* C17 witness: the session after a Generate run with a text of two blanks:
\* empty, not drawn, not submitted
C17_Witness ==
    /\ event = "generate"
    /\ text_content = <<" ", " ">>
    /\ questions = <<>>
    /\ selected_options = <<>>
    /\ radio = <<>>
    /\ ~submitted

\* C18: in every reachable state each selection is unset or a key of the
\* options of the question at the same position of the set now loaded, and
\* no selection exists at a position beyond the questions.
C18_SelectionsAreOptionKeys ==
    /\ Len(selected_options) <= Len(questions)
    /\ \A i \in 1..Len(selected_options) :
          \/ selected_options[i] = None
          \/ /\ QuestionOptions(questions[i]).exc = ""
             /\ \E j \in 1..Len(QuestionOptions(questions[i]).items) :
                   selected_options[i] = Str(QuestionOptions(questions[i]).items[j].s)

\* C18 witness: a set of two questions with different options, each answered
\* with the last of its own options
C18_Witness ==
    /\ questions = <<GoodItem, MissingOption>>
    /\ selected_options = <<Str("d"), Str("c")>>

====
